---- MODULE Spec2Model ----
(***************************************************************************)
(* Model of the Advertisement service of src/app.py: one table of          *)
(* Advertisement rows in SQLite, five HTTP handlers (create_ad, update_ad, *)
(* delete_ad, get_ad, search_ads) that each open a session, run their      *)
(* statements and commit.                                                  *)
(*                                                                         *)
(* A column value is Null or Some(v).  Titles are sequences of characters  *)
(* (the LIKE match of search_ads works on characters); authors and         *)
(* descriptions are strings; prices and timestamps are integers.           *)
(* A request body is a function from the JSON keys it carries to values:   *)
(* an absent key is not in its DOMAIN, a JSON null is Null.                *)
(***************************************************************************)
EXTENDS Integers, Sequences, FiniteSets, TLC

VARIABLES store,   \* the advertisement table: a set of rows
          now,     \* the clock datetime.utcnow reads
          last,    \* the last request served and its response: [op, id, req, status, out]
          issued,  \* history: the ids create_ad has returned so far
          sess,    \* interleaved requests: each session's position and data
          base     \* the table when the interleaved requests started

vars == <<store, now, last, issued, sess, base>>

\* ------------------------------------------------------------------ bounds

MaxId == 2        \* create_ad is not offered once the next id would exceed it
MaxTime == 1      \* the clock stops advancing here
MaxBodyKeys == 1  \* a PATCH body carries at most this many keys (requests served one at a time)
MaxConcKeys == 2  \* a PATCH body carries at most this many keys (interleaved requests)
NumSessions == 2  \* requests in flight at once

\* ------------------------------------------------------------------ values

Null == <<>>
Some(v) == <<v>>
Val(x) == x[1]

Titles == {<<"a">>, <<"A">>}
Authors == {"", "x"}
Descriptions == {"d"}
Prices == {0, 1}
Ids == 1..MaxId
Times == 0..MaxTime

\* ------------------------------------------------------------------ schema

\* class AdvertisementBase: the four client-supplied columns
BaseFields == {"title", "description", "price", "author"}

\* class Advertisement(table=True): the base columns plus id and created_at
Columns == BaseFields \cup {"id", "created_at"}

\* Variant: every column declared Optional, so no NOT NULL constraint
NotNullColumns_none == {}

\* Columns whose annotation is not Optional get NOT NULL in the table
\* (title: str, price: float, author: str, created_at: datetime); id is the
\* primary key.
NotNullColumns == {"title", "price", "author", "created_at", "id"}

\* class AdvertisementCreate(AdvertisementBase): title, price and author are
\* required and may not be null; description defaults to None
RequiredFields == {"title", "price", "author"}

\* class AdvertisementUpdate: every field Optional with default None
UpdateFields == {"title", "description", "price", "author"}

\* ------------------------------------------------------------------ requests

KeyValues(k) ==
    CASE k = "title" -> {Some(t) : t \in Titles} \cup {Null}
      [] k = "description" -> {Some(d) : d \in Descriptions} \cup {Null}
      [] k = "price" -> {Some(p) : p \in Prices} \cup {Null}
      [] k = "author" -> {Some(a) : a \in Authors} \cup {Null}
      [] k = "id" -> {Some(1)}
      [] k = "created_at" -> {Some(MaxTime)}

\* The bodies carrying exactly the keys `keys`
RECURSIVE BodiesOver(_)
BodiesOver(keys) ==
    IF keys = {} THEN {<<>>}
    ELSE LET k == CHOOSE x \in keys : TRUE
         IN  {(k :> v) @@ b : v \in KeyValues(k), b \in BodiesOver(keys \ {k})}

\* PATCH bodies: any of the six keys, up to n of them
BodiesUpTo(n) ==
    UNION {BodiesOver(ks) : ks \in {s \in SUBSET Columns : Cardinality(s) <= n}}

PatchBodies == BodiesUpTo(MaxBodyKeys)

ConcBodies == BodiesUpTo(MaxConcKeys)

\* POST bodies: the well-formed ones (description present, null or absent; an
\* id key that the schema does not declare), and the ones with one required
\* field missing or null
ValidPostBodies ==
    UNION {{b \in BodiesOver(RequiredFields \cup opt) :
               \A k \in RequiredFields : b[k] # Null}
           : opt \in {{}, {"description"}, {"id"}}}

InvalidPostBodies ==
    {b \in UNION {BodiesOver(ks) : ks \in {RequiredFields \ {k} : k \in RequiredFields}
                                          \cup {RequiredFields}} :
        /\ \E k \in RequiredFields : k \notin DOMAIN b \/ b[k] = Null
        /\ \A k \in DOMAIN b : b[k] = Null \/ b[k] = CHOOSE v \in KeyValues(k) : v # Null}

PostBodies == ValidPostBodies \cup InvalidPostBodies

\* Query strings of GET /advertisement: a parameter is absent or carries a value
FilterKeys == {"title", "author", "price_min", "price_max"}

FilterValues(k) ==
    CASE k = "title" -> {<<>>, <<"a">>, <<"%">>, <<"_">>}
      [] k = "author" -> Authors
      [] k = "price_min" -> {1}
      [] k = "price_max" -> {0}

RECURSIVE QueriesOver(_)
QueriesOver(keys) ==
    IF keys = {} THEN {<<>>}
    ELSE LET k == CHOOSE x \in keys : TRUE
         IN  {(k :> v) @@ q : v \in FilterValues(k), q \in QueriesOver(keys \ {k})}

Queries == UNION {QueriesOver(ks) : ks \in SUBSET FilterKeys}

\* ------------------------------------------------------------------ the table

NoRows == {}

\* Variant: the lookup ignores the id and takes the first row of the table
session_get_first(table, ad_id) ==
    IF table = {} THEN {} ELSE {CHOOSE r \in table : TRUE}

\* session.get(Advertisement, ad_id): the rows with that primary key (none or one)
session_get(table, ad_id) == {r \in table : r.id = Some(ad_id)}

StoredIds(table) == {Val(r.id) : r \in table}

SetMax(S) == CHOOSE m \in S : \A x \in S : x <= m

\* Variant: the id is the number of rows plus one
NextRowId_count(table) == Cardinality(table) + 1

\* id: Optional[int] = Field(default=None, primary_key=True): the INSERT carries
\* no id and SQLite assigns the INTEGER PRIMARY KEY: one more than the largest
\* rowid in the table, 1 for an empty table
NextRowId(table) ==
    IF table = NoRows THEN 1 ELSE SetMax(StoredIds(table)) + 1

\* AdvertisementCreate validation of the POST body: required fields present
\* and not null
ValidCreate(body) ==
    \A k \in RequiredFields : k \in DOMAIN body /\ body[k] # Null

\* Variant: an id key of the body is copied into the row
from_orm_client_id(body, newId, t) ==
    [k \in {"title", "description", "price", "author", "id", "created_at"} |->
        CASE k = "id" -> IF "id" \in DOMAIN body THEN body["id"] ELSE Some(newId)
          [] k = "created_at" -> Some(t)
          [] OTHER -> IF k \in DOMAIN body THEN body[k] ELSE Null]

\* Advertisement.from_orm(ad) followed by the INSERT: the declared fields of
\* the body (others are ignored), description None when unset, the generated
\* id and the created_at default
from_orm(body, newId, t) ==
    [k \in Columns |->
        CASE k = "id" -> Some(newId)
          [] k = "created_at" -> Some(t)
          [] OTHER -> IF k \in DOMAIN body THEN body[k] ELSE Null]

\* Variant: the raw body, undeclared keys included
exclude_unset_raw(body) == body

\* Variant: "if value:" instead of exclude_unset, dropping None, 0 and ""
exclude_unset_truthy(body) ==
    [k \in {x \in (DOMAIN body) \cap {"title", "description", "price", "author"} :
                /\ body[x] # Null
                /\ ~(x = "price" /\ body[x] = Some(0))
                /\ ~(x = "author" /\ body[x] = Some(""))} |-> body[k]]

\* ad_update.dict(exclude_unset=True): the declared fields the body carries
exclude_unset(body) ==
    [k \in (DOMAIN body) \cap UpdateFields |-> body[k]]

\* for k, v in ...items(): setattr(ad, k, v)
setattrs(row, changes) ==
    [k \in Columns |-> IF k \in DOMAIN changes THEN changes[k] ELSE row[k]]

\* The columns the unit of work writes at flush: those whose value differs
\* from the value session.get loaded
Dirty(loaded, obj) == {k \in Columns : obj[k] # loaded[k]}

\* session.add(ad); session.commit() of update_ad: the UPDATE of the dirty
\* columns WHERE id = the loaded id.  No statement is sent when no column is
\* dirty; a NULL in a NOT NULL column or an UPDATE that matches no row raises
\* and the transaction is rolled back.
CommitUpdate(table, loaded, obj) ==
    LET dirty == Dirty(loaded, obj)
        target == {r \in table : r.id = loaded.id}
    IN  IF dirty = {} THEN [ok |-> TRUE, table |-> table]
        ELSE IF \E k \in dirty \cap NotNullColumns : obj[k] = Null
             THEN [ok |-> FALSE, table |-> table]
        ELSE IF target = {} THEN [ok |-> FALSE, table |-> table]
        ELSE [ok |-> TRUE,
              table |-> (table \ target) \cup
                  {[k \in Columns |-> IF k \in dirty THEN obj[k] ELSE r[k]] : r \in target}]

\* Lines 50-55 of update_ad on the loaded row: setattr, commit, refresh.
\* session.refresh raises when the row is no longer in the table.
UpdateOutcome(table, ad, body) ==
    LET res == CommitUpdate(table, ad, setattrs(ad, exclude_unset(body)))
        fresh == {r \in res.table : r.id = ad.id}
    IN  IF res.ok /\ fresh # NoRows
        THEN [table |-> res.table, status |-> 200, out |-> fresh]
        ELSE [table |-> res.table, status |-> 500, out |-> NoRows]

\* Variant: DELETE without its WHERE clause
CommitDelete_all(table, loaded) == {}

\* session.delete(ad); session.commit(): DELETE ... WHERE id = ?
CommitDelete(table, loaded) == {r \in table : r.id # loaded.id}

\* ------------------------------------------------------------------ search

\* SQLite's LIKE folds the case of ASCII letters
Fold(c) == IF c = "A" THEN "a" ELSE c

\* SQLite's LIKE: % matches any run of characters, _ any one character
RECURSIVE Like(_, _)
Like(pat, s) ==
    IF pat = <<>> THEN s = <<>>
    ELSE IF Head(pat) = "%"
         THEN Like(Tail(pat), s) \/ (s # <<>> /\ Like(pat, Tail(s)))
    ELSE IF s = <<>> THEN FALSE
    ELSE IF Head(pat) = "_" THEN Like(Tail(pat), Tail(s))
    ELSE Fold(Head(pat)) = Fold(Head(s)) /\ Like(Tail(pat), Tail(s))

\* Advertisement.title.contains(title): title LIKE '%' || ? || '%'
contains(column, title) ==
    column # Null /\ Like(<<"%">> \o title \o <<"%">>, Val(column))

\* The query parameter, None when absent
Param(q, k) == IF k \in DOMAIN q THEN Some(q[k]) ELSE Null

\* "if title:" / "if author:": None and the empty string are falsy
Truthy(p, empty) == p # Null /\ Val(p) # empty

\* The statement search_ads builds, run on the table
SearchRows(table, q) ==
    LET title == Param(q, "title")
        author == Param(q, "author")
        price_min == Param(q, "price_min")
        price_max == Param(q, "price_max")
    IN  {r \in table :
            /\ Truthy(title, <<>>) => contains(r.title, Val(title))
            /\ Truthy(author, "") => r.author = author
            /\ price_min # Null => (r.price # Null /\ Val(r.price) >= Val(price_min))
            /\ price_max # Null => (r.price # Null /\ Val(r.price) <= Val(price_max))}


\* ------------------------------------------------------------------ handlers

Response(op, id, status, out, req) ==
    [op |-> op, id |-> id, status |-> status, out |-> out, req |-> req]

NoRequest == <<>>

Sessions == 1..NumSessions

Idle == [pc |-> "idle", op |-> "none", id |-> 0, body |-> <<>>, loaded |-> NoRows, status |-> 0]

\* POST /advertisement
create_ad(body) ==
    /\ NextRowId(store) <= MaxId
    /\ IF ~ValidCreate(body)
       THEN /\ last' = Response("create", 0, 422, NoRows, body)
            /\ UNCHANGED <<store, now, issued>>
       ELSE \E t \in {now, IF now < MaxTime THEN now + 1 ELSE now} :
              LET newId == NextRowId(store)
                  db_ad == from_orm(body, newId, t)
              IN  /\ store' = store \cup {db_ad}
                  /\ now' = t
                  /\ issued' = issued \cup {Val(db_ad.id)}
                  /\ last' = Response("create", Val(db_ad.id), 201, {db_ad}, body)
    /\ UNCHANGED <<sess, base>>

\* PATCH /advertisement/{ad_id}
update_ad(ad_id, body) ==
    /\ LET found == session_get(store, ad_id)
       IN  IF found = NoRows
           THEN /\ last' = Response("update", ad_id, 404, NoRows, body)
                /\ UNCHANGED store
           ELSE LET ad == CHOOSE r \in found : TRUE
                    res == UpdateOutcome(store, ad, body)
                IN  /\ store' = res.table
                    /\ last' = Response("update", ad_id, res.status, res.out, body)
    /\ UNCHANGED <<now, issued, sess, base>>

\* DELETE /advertisement/{ad_id}
delete_ad(ad_id) ==
    /\ LET found == session_get(store, ad_id)
       IN  IF found = NoRows
           THEN /\ last' = Response("delete", ad_id, 404, NoRows, NoRequest)
                /\ UNCHANGED store
           ELSE /\ store' = CommitDelete(store, CHOOSE r \in found : TRUE)
                /\ last' = Response("delete", ad_id, 204, NoRows, NoRequest)
    /\ UNCHANGED <<now, issued, sess, base>>

\* GET /advertisement/{ad_id}
get_ad(ad_id) ==
    /\ LET found == session_get(store, ad_id)
       IN  last' = IF found = NoRows
                   THEN Response("get", ad_id, 404, NoRows, NoRequest)
                   ELSE Response("get", ad_id, 200, found, NoRequest)
    /\ UNCHANGED <<store, now, issued, sess, base>>

\* GET /advertisement?title=&author=&price_min=&price_max=
\* (the response is a list; its order is not modelled)
search_ads(q) ==
    /\ last' = Response("search", 0, 200, SearchRows(store, q), q)
    /\ UNCHANGED <<store, now, issued, sess, base>>

Init ==
    /\ store = NoRows
    /\ now = 0
    /\ last = Response("none", 0, 0, NoRows, NoRequest)
    /\ issued = {}
    /\ sess = [s \in Sessions |-> Idle]
    /\ base = NoRows

Next ==
    \/ \E body \in PostBodies : create_ad(body)
    \/ \E ad_id \in Ids, body \in PatchBodies : update_ad(ad_id, body)
    \/ \E ad_id \in Ids : delete_ad(ad_id)
    \/ \E ad_id \in Ids : get_ad(ad_id)
    \/ \E q \in Queries : search_ads(q)

\* Requests served one at a time
Spec == Init /\ [][Next]_vars

\* ------------------------------------------------------------------ interleaved requests
\* The handlers are plain "def": the server runs them on worker threads, each
\* with its own Session.  session.get reads outside any write transaction and
\* session.commit runs BEGIN ... COMMIT under SQLite's database lock, so a
\* PATCH or DELETE is two steps: the read, then the write.

\* line 47 / line 59: ad = session.get(Advertisement, ad_id); 404 when missing
Load(s, op, ad_id, body) ==
    /\ sess[s].pc = "idle"
    /\ LET found == session_get(store, ad_id)
       IN  sess' = [sess EXCEPT ![s] =
                      [pc |-> IF found = NoRows THEN "done" ELSE "loaded",
                       op |-> op, id |-> ad_id, body |-> body, loaded |-> found,
                       status |-> IF found = NoRows THEN 404 ELSE 0]]
    /\ UNCHANGED <<store, now, last, issued, base>>

\* lines 50-55 of update_ad, on the row loaded earlier
FlushUpdate(s) ==
    /\ sess[s].pc = "loaded"
    /\ sess[s].op = "update"
    /\ LET ad == CHOOSE r \in sess[s].loaded : TRUE
           res == UpdateOutcome(store, ad, sess[s].body)
       IN  /\ store' = res.table
           /\ sess' = [sess EXCEPT ![s].pc = "done", ![s].status = res.status]
    /\ UNCHANGED <<now, last, issued, base>>

\* lines 62-63 of delete_ad, on the row loaded earlier: a DELETE that matches
\* no row only warns
FlushDelete(s) ==
    /\ sess[s].pc = "loaded"
    /\ sess[s].op = "delete"
    /\ store' = CommitDelete(store, CHOOSE r \in sess[s].loaded : TRUE)
    /\ sess' = [sess EXCEPT ![s].pc = "done", ![s].status = 204]
    /\ UNCHANGED <<now, last, issued, base>>

\* The table after one POST
ConcInit ==
    /\ \E body \in ValidPostBodies :
          /\ "description" \in DOMAIN body
          /\ "id" \notin DOMAIN body
          /\ store = {from_orm(body, 1, 0)}
    /\ base = store
    /\ now = 0
    /\ last = Response("none", 0, 0, NoRows, NoRequest)
    /\ issued = {1}
    /\ sess = [s \in Sessions |-> Idle]

ConcNext ==
    \/ \E s \in Sessions, ad_id \in Ids, body \in ConcBodies : Load(s, "update", ad_id, body)
    \/ \E s \in Sessions, ad_id \in Ids : Load(s, "delete", ad_id, <<>>)
    \/ \E s \in Sessions : FlushUpdate(s)
    \/ \E s \in Sessions : FlushDelete(s)

ConcSpec == ConcInit /\ [][ConcNext]_vars

\* ------------------------------------------------------------------ properties

Stored(table, id) == \E r \in table : r.id = Some(id)
Row(table, id) == CHOOSE r \in table : r.id = Some(id)
Others(table, id) == {r \in table : r.id # Some(id)}

\* The body supplies null for a field the data model requires
NullsRequired(body) ==
    \E k \in (DOMAIN body) \cap {"title", "price", "author"} : body[k] = Null

\* The record `id` of table t2 is the record of t with exactly the present
\* fields of the body replaced; nothing else differs between t and t2
AppliedExactly(t, t2, id, body) ==
    /\ Stored(t2, id)
    /\ \A k \in {"title", "description", "price", "author"} :
          Row(t2, id)[k] = IF k \in DOMAIN body THEN body[k] ELSE Row(t, id)[k]
    /\ Row(t2, id).id = Row(t, id).id
    /\ Row(t2, id).created_at = Row(t, id).created_at
    /\ Cardinality(t2) = Cardinality(t)
    /\ Others(t2, id) = Others(t, id)

\* C1 as stated: every PartialUpdate(id, body) on an existing id gives exactly
\* the fields present in the body the supplied value, keeps every absent
\* field, id and created_at, and leaves every other record unchanged.
C1_PartialUpdateAppliesBody ==
    [][(last'.op = "update" /\ Stored(store, last'.id))
          => AppliedExactly(store, store', last'.id, last'.req)]_vars

\* C1 amended: a PartialUpdate on an existing id whose body supplies no null
\* for title, price or author succeeds and applies exactly the present fields
\* (a price of 0, an empty string, a null description included), keeping the
\* absent fields, id, created_at and every other record; a body that supplies
\* null for title, price or author fails with 500 and changes nothing.
C1_PartialUpdateAppliesValidBody ==
    [][(last'.op = "update" /\ Stored(store, last'.id))
          => IF NullsRequired(last'.req)
             THEN last'.status = 500 /\ store' = store
             ELSE /\ last'.status = 200
                  /\ AppliedExactly(store, store', last'.id, last'.req)
                  /\ last'.out = {Row(store', last'.id)}]_vars

\* A PATCH carrying price 0 has been applied, leaving a non-null description
\* in place
C1_Witness ==
    /\ last.op = "update"
    /\ last.status = 200
    /\ "price" \in DOMAIN last.req
    /\ last.req["price"] = Some(0)
    /\ Row(store, last.id).price = Some(0)
    /\ Row(store, last.id).description # Null
    /\ Cardinality(store) = 2

\* t occurs in s as a run of equal characters
IsSubstring(t, s) ==
    \E i \in 0..(Len(s) - Len(t)) : SubSeq(s, i + 1, i + Len(t)) = t

\* The records satisfying every filter the query carries
Matching(table, q) ==
    {r \in table :
        /\ "title" \in DOMAIN q => IsSubstring(q["title"], Val(r.title))
        /\ "author" \in DOMAIN q => r.author = Some(q["author"])
        /\ "price_min" \in DOMAIN q => Val(r.price) >= q["price_min"]
        /\ "price_max" \in DOMAIN q => Val(r.price) <= q["price_max"]}

\* C2: for every combination of supplied and absent filters Search returns
\* exactly the stored records that satisfy all supplied filters (a parameter
\* that is present, whatever its value, is a supplied filter).
C2_SearchReturnsMatching ==
    [][last'.op = "search" => last'.out = Matching(store, last'.req)]_vars

\* C3: Search(title=t) returns exactly the records whose title contains t
\* character for character: letter case matters, % and _ match themselves.
C3_TitleIsLiteralSubstring ==
    [][(last'.op = "search" /\ DOMAIN last'.req = {"title"})
          => last'.out = {r \in store : IsSubstring(last'.req["title"], Val(r.title))}]_vars

\* C4: a successful Create adds exactly one record, under an id that no stored
\* record has and that does not come from the request, holding the supplied
\* title, description, price and author; a Get of that id issued next returns
\* that same record.
C4_CreateThenGet ==
    [][/\ (last'.op = "create" /\ last'.status = 201)
            => /\ ~Stored(store, last'.id)
               /\ store \subseteq store'
               /\ Cardinality(store') = Cardinality(store) + 1
               /\ store' \ store = last'.out
               /\ \A r \in last'.out :
                     /\ r.id = Some(last'.id)
                     /\ \A k \in {"title", "description", "price", "author"} :
                           r[k] = IF k \in DOMAIN last'.req THEN last'.req[k] ELSE Null
       /\ (last.op = "create" /\ last.status = 201 /\ last'.op = "get" /\ last'.id = last.id)
            => /\ last'.status = 200
               /\ last'.out = last.out]_vars

\* A Create whose body carried an id key has added a second record
C4_Witness ==
    /\ last.op = "create"
    /\ last.status = 201
    /\ "id" \in DOMAIN last.req
    /\ last.req["id"] # Some(last.id)
    /\ Cardinality(store) = 2
    /\ last.out \subseteq store

\* C5: a successful Delete(id) removes that record and no other; a Get(id)
\* issued next yields 404, and no Search returns the deleted record.
C5_DeleteRemoves ==
    [][/\ (last'.op = "delete" /\ last'.status = 204)
            => /\ Stored(store, last'.id)
               /\ ~Stored(store', last'.id)
               /\ store' = Others(store, last'.id)
               /\ \A q \in Queries : ~Stored(SearchRows(store', q), last'.id)
       /\ (last.op = "delete" /\ last.status = 204 /\ last'.op = "get" /\ last'.id = last.id)
            => last'.status = 404]_vars

\* A record has been deleted while another one stays stored
C5_Witness ==
    /\ last.op = "delete"
    /\ last.status = 204
    /\ Cardinality(store) = 1
    /\ ~Stored(store, last.id)

\* C6: Get, PartialUpdate and Delete of an id that is not stored fail with 404
\* and leave the store as it was.
C6_NotFoundChangesNothing ==
    [][(last'.op \in {"get", "update", "delete"} /\ ~Stored(store, last'.id))
          => last'.status = 404 /\ store' = store]_vars

\* A PATCH of a missing id has been refused while a record is stored
C6_Witness ==
    /\ last.op = "update"
    /\ last.status = 404
    /\ last.req # <<>>
    /\ store # {}
    /\ ~Stored(store, last.id)

\* C7: from its creation to its deletion a stored record keeps its id and its
\* created_at, whatever the requests (PATCH bodies with id or created_at keys
\* included).
C7_IdAndCreatedAtImmutable ==
    [][\A r \in store :
          \/ last'.op = "delete" /\ last'.status = 204 /\ r.id = Some(last'.id)
          \/ \E r2 \in store' : r2.id = r.id /\ r2.created_at = r.created_at]_vars

\* A PATCH whose body carried another created_at has been served and the
\* record kept its own
C7_Witness ==
    /\ last.op = "update"
    /\ last.status = 200
    /\ "created_at" \in DOMAIN last.req
    /\ Stored(store, last.id)
    /\ Row(store, last.id).created_at # last.req["created_at"]

\* C8: every stored record has a non-null title, price and author, also after
\* a PartialUpdate whose body supplies null for one of them.
C8_RequiredFieldsNeverNull ==
    \A r \in store : r.title # Null /\ r.price # Null /\ r.author # Null

\* A PATCH with a null title has been refused and the record is still stored
C8_Witness ==
    /\ last.op = "update"
    /\ last.status = 500
    /\ "title" \in DOMAIN last.req
    /\ last.req["title"] = Null
    /\ Stored(store, last.id)

\* C10 as stated: no Create returns an id that an earlier Create returned.
C10_IdNeverReused ==
    [][(last'.op = "create" /\ last'.status = 201) => last'.id \notin issued]_vars

\* C10 amended: the id a Create returns is one more than the largest id stored
\* at that moment (1 for an empty store), hence the id of no stored record;
\* ids are not unique over time.
C10_IdAboveStoredIds ==
    [][(last'.op = "create" /\ last'.status = 201)
          => /\ \A r \in store : Val(r.id) < last'.id
             /\ store = {} => last'.id = 1
             /\ store # {} => \E r \in store : Val(r.id) + 1 = last'.id]_vars

\* A Create has returned an id for the second time: a larger id had already
\* been issued, and ids are issued in increasing order
C10_Witness ==
    /\ last.op = "create"
    /\ last.status = 201
    /\ (last.id + 1) \in issued
    /\ Stored(store, last.id)

\* The request of session s run as one atomic unit on a table
AtomicApply(table, r) ==
    IF ~Stored(table, r.id) THEN table
    ELSE IF r.op = "update" THEN UpdateOutcome(table, Row(table, r.id), r.body).table
    ELSE Others(table, r.id)

Orders == {p \in [Sessions -> Sessions] : \A a, b \in Sessions : a # b => p[a] # p[b]}

\* The requests ss run one after another in the order p, from the table
RECURSIVE RunSerial(_, _, _, _)
RunSerial(ss, table, p, i) ==
    IF i > NumSessions THEN table
    ELSE RunSerial(ss, AtomicApply(table, ss[p[i]]), p, i + 1)

\* Once every request ss is done, the table is what some serial order gives
Serializable(ss, table) ==
    (\A s \in Sessions : ss[s].pc = "done")
        => \E p \in Orders : table = RunSerial(ss, base, p, 1)

\* C9: for every interleaving of the reads and writes of concurrent
\* PartialUpdate and Delete requests the final store is the one some serial
\* order of the requests produces, a failed request changes nothing, and a
\* deleted record is never written back by a PartialUpdate that had read it.
C9_InterleavingsSerializable ==
    [][/\ Serializable(sess', store')
       /\ \A s \in Sessions :
             (sess[s].pc # "done" /\ sess'[s].pc = "done" /\ sess'[s].status \in {404, 500})
                => store' = store
       /\ \A r \in store' : \E r0 \in store : r0.id = r.id]_vars

====
